---------------------------- MODULE Spec2Model ----------------------------
(***************************************************************************)
(* The notebook src/notebooks/hw4.py as a state machine.                   *)
(*                                                                         *)
(* The notebook is a straight-line script: it reads a CSV table, casts two *)
(* columns, splits the rows 80/20 with seed 42, fits a pipeline model,     *)
(* prints its RMSE and then, inside one `with mlflow.start_run(...)`       *)
(* scope, fits a random forest, logs parameters, the model, four metrics   *)
(* and two CSV artifacts.  pc is the source line of the next statement.    *)
(*                                                                         *)
(* What the libraries compute numerically (a fitted forest, a prediction,  *)
(* a metric) is kept as a term that records what it was computed from:     *)
(* the script only passes these values on.  What the libraries do to the   *)
(* rows (cast, per-partition sort, seeded sampling, CSV writing) and to    *)
(* the run record (start, log, end on scope exit) is modelled step by      *)
(* step.                                                                   *)
(***************************************************************************)
EXTENDS Integers, Sequences, FiniteSets, TLC

VARIABLES
    pc,         \* source line of the next statement; 0 = the script has ended
    failedAt,   \* 0, or the line whose statement raised and ended the script
    execNo,     \* which execution of the notebook this is (1, 2, ...)
    ansi,       \* spark.sql.ansi.enabled of the session
    rawTable,   \* the rows of driver_standings.csv, as text, in file order; <<>> until read
    df,         \* the notebook's df: <<>> before line 20, text rows, then typed rows
    casted,     \* TRUE once line 33 has replaced df by the cast columns
    splitDone,  \* TRUE once line 46 has bound trainDF and testDF
    trainMat,   \* every distinct result a materialisation of trainDF has had
    testMat,    \* every distinct result a materialisation of testDF has had
    model,      \* line 68: the fitted pipeline model, or NoModel
    rfModel,    \* line 101: the fitted random forest, or NoModel
    predictions_df, \* line 134: the collected prediction rows, <<>> before
    files,      \* local storage: the CSV files written, by name
    run,        \* the run record of this execution's `with` scope
    sealed,     \* the run record the previous execution left in the store
    stdout      \* what the script has printed, in order

vars == <<pc, failedAt, execNo, ansi, rawTable, df, casted, splitDone,
          trainMat, testMat, model, rfModel, predictions_df, files, run, sealed, stdout>>

-----------------------------------------------------------------------------
(* Bounds of the model *)

MaxRows == 3          \* rows in the CSV file
PartitionRows == 2    \* rows the reader puts in one input partition
MaxExecutions == 2    \* times the notebook is run on the same file

-----------------------------------------------------------------------------
(* Text of the CSV cells and the casts of line 33 *)

Digits == {"0", "1", "2", "3", "4", "5", "6", "7", "8", "9"}

DigitVal(c) ==
    CASE c = "0" -> 0 [] c = "1" -> 1 [] c = "2" -> 2 [] c = "3" -> 3
      [] c = "4" -> 4 [] c = "5" -> 5 [] c = "6" -> 6 [] c = "7" -> 7
      [] c = "8" -> 8 [] c = "9" -> 9

\* The rows a file is drawn from; a cell is text, a sequence of characters.
\* Two rows are numeric, one has a non-numeric position and non-numeric points.
RawRows ==
    { [position |-> <<"1">>, points |-> <<"2", ".", "5">>],
      [position |-> <<"2">>, points |-> <<"5">>],
      [position |-> <<"x">>, points |-> <<"y">>] }

IsDigits(t) == Len(t) > 0 /\ \A i \in 1..Len(t) : t[i] \in Digits

RECURSIVE DecimalValue(_)
DecimalValue(t) ==
    IF t = <<>> THEN 0
    ELSE 10 * DecimalValue(SubSeq(t, 1, Len(t) - 1)) + DigitVal(t[Len(t)])

\* A typed cell: a value, SQL NULL, or a cast whose evaluation raises.
Val(n) == [k |-> "val", v |-> n]
Null == [k |-> "null", v |-> 0]
Err == [k |-> "err", v |-> 0]

\* What a cast does with text that is not a number: NULL when ANSI mode is
\* off, a parse error (raised when the row is evaluated) when it is on.
Invalid(ansiOn) == IF ansiOn THEN Err ELSE Null

\* Mutant of CastInt: text that is not a number becomes 0, as a lenient
\* parser would make it.
CastIntLenient(t, ansiOn) ==
    IF IsDigits(t) THEN Val(DecimalValue(t)) ELSE Val(0)

\* cast(IntegerType()) of a text cell.
CastInt(t, ansiOn) ==
    IF IsDigits(t) THEN Val(DecimalValue(t)) ELSE Invalid(ansiOn)

\* cast(DoubleType()) of a text cell; a double is kept in tenths, so that
\* "5" becomes 5.0 (50) and "2.5" becomes 2.5 (25).
CastDouble(t, ansiOn) ==
    LET dots == {i \in 1..Len(t) : t[i] = "."}
    IN  IF IsDigits(t) THEN Val(10 * DecimalValue(t))
        ELSE IF /\ dots = {Len(t) - 1}
                /\ IsDigits(SubSeq(t, 1, Len(t) - 2))
                /\ t[Len(t)] \in Digits
             THEN Val(10 * DecimalValue(SubSeq(t, 1, Len(t) - 2)) + DigitVal(t[Len(t)]))
             ELSE Invalid(ansiOn)

\* Line 33: both withColumn casts, row by row.
CastRow(r, ansiOn) ==
    [position |-> CastInt(r.position, ansiOn), points |-> CastDouble(r.points, ansiOn)]

CastTable(t, ansiOn) == [i \in 1..Len(t) |-> CastRow(t[i], ansiOn)]

HasErr(t) == \E i \in 1..Len(t) : t[i].position.k = "err" \/ t[i].points.k = "err"

-----------------------------------------------------------------------------
(* Line 46: df.select(['position','points']).randomSplit([.8, .2], seed=42) *)

\* Mutant of seed: no seed is passed, so every execution draws its own.
seedPerExecution == 42 + execNo

seed == 42

\* The weights [.8, .2] in tenths; randomSplit normalises them by their sum
\* and gives split i the draws in [sum of weights before i, sum up to i).
weights == <<8, 2>>

WeightSum == weights[1] + weights[2]

\* The input partition (0-based) the reader puts row i of the file in.
PartIdx(i) == (i - 1) \div PartitionRows

NumParts(n) == (n + PartitionRows - 1) \div PartitionRows

\* The orders in which a scan may hand over n rows: the rows of a partition
\* arrive in any order, each in its own partition.
ArrivalOrders(n) ==
    { p \in [1..n -> 1..n] :
        /\ \A i, j \in 1..n : i # j => p[i] # p[j]
        /\ \A i \in 1..n : PartIdx(p[i]) = PartIdx(i) }

\* The rows of partition k of table t, in arrival order p.
PartitionOf(t, p, k) ==
    LET first == k * PartitionRows + 1
        last == IF (k + 1) * PartitionRows < Len(t) THEN (k + 1) * PartitionRows ELSE Len(t)
    IN  [j \in 1..(last - first + 1) |-> t[p[first + j - 1]]]

\* Ascending order of cells, NULL first, and of rows by (position, points).
CellLess(a, b) ==
    \/ a.k = "null" /\ b.k = "val"
    \/ a.k = "val" /\ b.k = "val" /\ a.v < b.v

RowLess(a, b) ==
    \/ CellLess(a.position, b.position)
    \/ a.position = b.position /\ CellLess(a.points, b.points)

RECURSIVE InsertSorted(_, _)
InsertSorted(r, s) ==
    IF s = <<>> THEN <<r>>
    ELSE IF RowLess(s[1], r) THEN <<s[1]>> \o InsertSorted(r, Tail(s))
    ELSE <<r>> \o s

\* randomSplit sorts every input partition by all its columns before it
\* samples, so that the draws meet the rows in the same order each time.
RECURSIVE SortedPartition(_)
SortedPartition(s) ==
    IF s = <<>> THEN <<>>
    ELSE InsertSorted(s[1], SortedPartition(Tail(s)))

\* The generator behind the sample, a stand-in for Spark's XORShiftRandom:
\* an 8-bit linear congruential generator; a draw is a number of tenths.
NextRand(s) == (141 * s + 31) % 256

RECURSIVE RandState(_, _)
RandState(s, n) == IF n = 0 THEN s % 256 ELSE NextRand(RandState(s, n - 1))

\* The draw for the j-th row of a partition whose generator was seeded s.
Draw(s, j) == (RandState(s, j) * 10) \div 256

\* The rows of a sorted partition whose draw x (in tenths) lies in the
\* normalised range [lo / WeightSum, hi / WeightSum), the generator seeded
\* with the split's seed plus the partition index.
RECURSIVE SamplePartition(_, _, _, _, _)
SamplePartition(s, j, sd, lo, hi) ==
    IF j > Len(s) THEN <<>>
    ELSE (IF lo * 10 <= Draw(sd, j) * WeightSum /\ Draw(sd, j) * WeightSum < hi * 10
          THEN <<s[j]>> ELSE <<>>)
         \o SamplePartition(s, j + 1, sd, lo, hi)

RECURSIVE SampleFrom(_, _, _, _, _, _)
SampleFrom(t, p, k, sd, lo, hi) ==
    IF k >= NumParts(Len(t)) THEN <<>>
    ELSE SamplePartition(SortedPartition(PartitionOf(t, p, k)), 1, sd + k, lo, hi)
         \o SampleFrom(t, p, k + 1, sd, lo, hi)

\* One materialisation of a split of table t whose rows arrive in order p.
Sample(t, p, sd, lo, hi) == SampleFrom(t, p, 0, sd, lo, hi)

\* trainDF and testDF are plans, evaluated anew (scan, sort, sample) each
\* time an action needs their rows.
trainDF(t, p) == Sample(t, p, seed, 0, weights[1])

\* Mutant of testDF: the test rows are sampled by a second call, with a seed
\* of its own.
testDFReseeded(t, p) == Sample(t, p, seed + 1, weights[1], weights[1] + weights[2])

testDF(t, p) == Sample(t, p, seed, weights[1], weights[1] + weights[2])

-----------------------------------------------------------------------------
(* The estimators, lines 65-68 and 95-107 *)

NoModel == [numTrees |-> 0, maxDepth |-> 0, trainedOn |-> <<>>]

\* maxDepth of a RandomForestRegressor built without one (line 66).
DefaultMaxDepth == 5

\* Line 66: RandomForestRegressor(..., numTrees=5).
PipelineRF == [numTrees |-> 5, maxDepth |-> DefaultMaxDepth]

\* Lines 88-89 and 99: the regressor of the run.
num_trees == 10

max_depth == 5

\* Mutant of RunRF: the regressor of line 66 is fitted again in the run.
StaleRF == [numTrees |-> 5, maxDepth |-> DefaultMaxDepth]

RunRF == [numTrees |-> num_trees, maxDepth |-> max_depth]

\* VectorAssembler(inputCols=["position"]) with its default
\* handleInvalid="error": a NULL position raises when the row is assembled.
Assembles(rows) == \A i \in 1..Len(rows) : rows[i].position.k = "val"

Features(r) == <<r.position>>

\* estimator.fit(rows): the fitted model is the estimator's hyperparameters
\* and the rows it was trained on.  Fitting raises on an empty table.
CanFit(rows) == rows # <<>> /\ Assembles(rows)

Fit(rf, rows) == [numTrees |-> rf.numTrees, maxDepth |-> rf.maxDepth, trainedOn |-> rows]

\* m.transform(rows): every row, with its features and the model's prediction.
Transform(m, rows) ==
    [i \in 1..Len(rows) |->
        [position |-> rows[i].position, points |-> rows[i].points,
         features |-> Features(rows[i]),
         prediction |-> [by |-> m, at |-> Features(rows[i])]]]

\* evaluator.evaluate(preds, {metricName: name}).
Evaluate(name, preds) == [metric |-> name, of |-> preds]

\* Lines 129-130: rfModel.featureImportances as a one-column frame, one row
\* per input feature of the assembler.
inputCols == <<"position">>

ImportanceFrame(m) == [i \in 1..Len(inputCols) |-> [importance |-> [feature |-> inputCols[i], by |-> m]]]

\* Line 134: predDF.select("position", "points", "prediction").toPandas().
SelectedColumns == <<"position", "points", "prediction">>

\* Mutant of Select: the frame is collected without the select, the
\* features column still in it.
SelectAll(preds) == preds

Select(preds) ==
    [i \in 1..Len(preds) |->
        [position |-> preds[i].position, points |-> preds[i].points,
         prediction |-> preds[i].prediction]]

-----------------------------------------------------------------------------
(* Local files and the run record *)

FileNames == {"importance.csv", "predictions.csv"}

NoFile == [exists |-> FALSE, columns |-> <<>>, rows |-> <<>>, writtenIn |-> 0]

\* frame.to_csv(name, index=False): the frame's columns as the header, one
\* line per row, replacing what the file held.
ToCsv(columns, rows, e) == [exists |-> TRUE, columns |-> columns, rows |-> rows, writtenIn |-> e]

NoRun == [status |-> "NONE", id |-> 0, name |-> "", params |-> <<>>, metrics |-> <<>>,
          models |-> <<>>, artifacts |-> <<>>]

\* Line 86: mlflow.start_run(run_name=...) creates the run and makes it active.
StartedRun(e) ==
    [NoRun EXCEPT !.status = "RUNNING", !.id = e,
                  !.name = "Saira RF numTrees=10,maxDepth=5"]

\* The fluent logging calls write to the active run.
LogParam(r, key, value) == [r EXCEPT !.params = Append(@, <<key, value>>)]

LogMetric(r, key, value) == [r EXCEPT !.metrics = Append(@, <<key, value>>)]

LogModel(r, m, path) == [r EXCEPT !.models = Append(@, [path |-> path, model |-> m])]

LogArtifact(r, name, file) == [r EXCEPT !.artifacts = Append(@, [name |-> name, file |-> file])]

\* Mutant of ExitRun: the run is ended by a call at the end of the block,
\* which a raising statement never reaches.
ExitRunUnlessRaised(r, raised) ==
    IF r.status = "RUNNING" /\ ~raised THEN [r EXCEPT !.status = "FINISHED"] ELSE r

\* Mutant of ExitRun: a failed run is emptied.
ExitRunRollback(r, raised) ==
    IF r.status # "RUNNING" THEN r
    ELSE IF raised
         THEN [r EXCEPT !.status = "FAILED", !.params = <<>>, !.metrics = <<>>,
                        !.models = <<>>, !.artifacts = <<>>]
         ELSE [r EXCEPT !.status = "FINISHED"]

\* The `with` statement's exit: ActiveRun.__exit__ ends the run, FINISHED
\* when the block completed and FAILED when a statement in it raised.
ExitRun(r, raised) ==
    IF r.status = "RUNNING"
    THEN [r EXCEPT !.status = IF raised THEN "FAILED" ELSE "FINISHED"]
    ELSE r

-----------------------------------------------------------------------------
(* The script: its statements in order, and the `with` block among them *)

\* Mutant of Script: the mse lines 124-126 are missing.
ScriptWithoutMse ==
    <<20, 24, 33, 37, 46, 56, 60, 65, 73, 86, 92, 93, 97, 104, 106,
      112, 116, 120, 129, 132, 134, 136, 138>>

\* Mutant of Script: importance.csv is written before mse is logged.
ScriptWriteEarly ==
    <<20, 24, 33, 37, 46, 56, 60, 65, 73, 86, 92, 93, 97, 104, 106,
      112, 116, 120, 129, 124, 132, 134, 136, 138>>

\* The first line of every statement (or group of statements that makes one
\* library call) of the notebook, in the order the notebook runs them.
Script ==
    <<20, 24, 33, 37, 46, 56, 60, 65, 73, 86, 92, 93, 97, 104, 106,
      112, 116, 120, 124, 129, 132, 134, 136, 138>>

\* pc once the script has ended.
End == 0

\* Mutant of WithBlock: the artifact lines are dedented out of the block.
WithBlockShort == [first |-> 86, last |-> 126]

\* Lines 86-141: the statement that opens the run and the last line of the
\* block under it.
WithBlock == [first |-> 86, last |-> 141]

InBlock(line) == WithBlock.first < line /\ line <= WithBlock.last

\* The statement that runs after the one at `line`.
After(line) ==
    LET i == CHOOSE j \in 1..Len(Script) : Script[j] = line
    IN  IF i = Len(Script) THEN End ELSE Script[i + 1]

\* The run record after the statement at `line` wrote r: control leaves the
\* `with` block when the next statement is outside it, and the block's exit
\* then ends the run.
Leave(r, line) ==
    IF InBlock(line) /\ ~InBlock(After(line)) THEN ExitRun(r, FALSE) ELSE r

\* The files a script is run on.
RECURSIVE TablesOf(_)
TablesOf(n) ==
    IF n = 0 THEN {<<>>}
    ELSE TablesOf(n - 1) \cup
         {Append(t, r) : t \in {u \in TablesOf(n - 1) : Len(u) = n - 1}, r \in RawRows}

Printed(what, id) == [what |-> what, id |-> id]

Init ==
    /\ pc = Script[1]
    /\ failedAt = 0
    /\ execNo = 1
    /\ ansi \in BOOLEAN
    /\ rawTable = <<>>
    /\ df = <<>>
    /\ casted = FALSE
    /\ splitDone = FALSE
    /\ trainMat = {}
    /\ testMat = {}
    /\ model = NoModel
    /\ rfModel = NoModel
    /\ predictions_df = <<>>
    /\ files = [f \in FileNames |-> NoFile]
    /\ run = NoRun
    /\ sealed = NoRun
    /\ stdout = <<>>

\* Line 20: df = spark.read.csv(..., header=True); every column is text.
\* The first execution finds the file's rows, a later one reads the same.
Load ==
    /\ pc = 20
    /\ pc' = After(20)
    /\ \E t \in (IF execNo = 1 THEN TablesOf(MaxRows) ELSE {rawTable}) :
          rawTable' = t /\ df' = t
    /\ UNCHANGED <<failedAt, execNo, ansi, casted, splitDone, trainMat,
                   testMat, model, rfModel, predictions_df, files, run, sealed, stdout>>

\* Line 24: display(df) of the text table.
DisplayRaw ==
    /\ pc = 24
    /\ pc' = After(24)
    /\ UNCHANGED <<failedAt, execNo, ansi, rawTable, df, casted, splitDone, trainMat,
                   testMat, model, rfModel, predictions_df, files, run, sealed, stdout>>

\* Line 33: df is replaced by the plan that casts points and position; no
\* row is evaluated yet.
Cast ==
    /\ pc = 33
    /\ pc' = After(33)
    /\ df' = CastTable(df, ansi)
    /\ casted' = TRUE
    /\ UNCHANGED <<failedAt, execNo, ansi, rawTable, splitDone, trainMat,
                   testMat, model, rfModel, predictions_df, files, run, sealed, stdout>>

\* Line 37: display(df) fetches the first rows of the cast table (all of
\* them or fewer); it completes when no fetched row raises.
DisplayCast ==
    /\ pc = 37
    /\ pc' = After(37)
    /\ \E n \in (IF df = <<>> THEN 0 ELSE 1)..Len(df) : ~HasErr(SubSeq(df, 1, n))
    /\ UNCHANGED <<failedAt, execNo, ansi, rawTable, df, casted, splitDone, trainMat,
                   testMat, model, rfModel, predictions_df, files, run, sealed, stdout>>

\* Line 46: trainDF and testDF are bound to the two sample plans.
Split ==
    /\ pc = 46
    /\ pc' = After(46)
    /\ splitDone' = TRUE
    /\ UNCHANGED <<failedAt, execNo, ansi, rawTable, df, casted, trainMat,
                   testMat, model, rfModel, predictions_df, files, run, sealed, stdout>>

\* Line 56: display(trainDF) computes the first input partitions (all of
\* them or fewer), sorting and sampling each.
DisplayTrain ==
    /\ pc = 56
    /\ pc' = After(56)
    /\ \E n \in (IF df = <<>> THEN 0 ELSE 1)..NumParts(Len(df)) :
           ~HasErr(SubSeq(df, 1, IF n * PartitionRows < Len(df) THEN n * PartitionRows ELSE Len(df)))
    /\ UNCHANGED <<failedAt, execNo, ansi, rawTable, df, casted, splitDone, trainMat,
                   testMat, model, rfModel, predictions_df, files, run, sealed, stdout>>

\* Line 60: display(trainDF.summary()) evaluates every row of trainDF.
Summary ==
    /\ pc = 60
    /\ pc' = After(60)
    /\ ~HasErr(df)
    /\ \E p \in ArrivalOrders(Len(df)) :
          \E rows \in {trainDF(df, p)} : trainMat' = trainMat \cup {rows}
    /\ UNCHANGED <<failedAt, execNo, ansi, rawTable, df, casted, splitDone,
                   testMat, model, rfModel, predictions_df, files, run, sealed, stdout>>

\* Lines 65-68: the pipeline of assembler and forest is fitted on trainDF.
PipelineFit ==
    /\ pc = 65
    /\ pc' = After(65)
    /\ ~HasErr(df)
    /\ \E p \in ArrivalOrders(Len(df)) :
          \E rows \in {trainDF(df, p)} :
              /\ CanFit(rows)
              /\ trainMat' = trainMat \cup {rows}
              /\ model' = Fit(PipelineRF, rows)
    /\ UNCHANGED <<failedAt, execNo, ansi, rawTable, df, casted, splitDone,
                   testMat, rfModel, predictions_df, files, run, sealed, stdout>>

\* Lines 73-77: the pipeline model's RMSE on testDF is computed and printed.
PipelineEval ==
    /\ pc = 73
    /\ pc' = After(73)
    /\ ~HasErr(df)
    /\ \E p \in ArrivalOrders(Len(df)) :
          \E rows \in {testDF(df, p)} :
              /\ Assembles(rows)
              /\ testMat' = testMat \cup {rows}
    /\ stdout' = Append(stdout, Printed("Root Mean Squared Error (RMSE):", 0))
    /\ UNCHANGED <<failedAt, execNo, ansi, rawTable, df, casted, splitDone,
                   trainMat, model, rfModel, predictions_df, files, run, sealed>>

\* Line 86: the `with` statement starts the run.
StartRun ==
    /\ pc = 86
    /\ pc' = After(86)
    /\ run' = StartedRun(execNo)
    /\ UNCHANGED <<failedAt, execNo, ansi, rawTable, df, casted, splitDone, trainMat,
                   testMat, model, rfModel, predictions_df, files, sealed, stdout>>

\* Lines 88-93: the two hyperparameters are set and logged.
LogNumTrees ==
    /\ pc = 92
    /\ pc' = After(92)
    /\ run' = Leave(LogParam(run, "num_trees", num_trees), 92)
    /\ UNCHANGED <<failedAt, execNo, ansi, rawTable, df, casted, splitDone, trainMat,
                   testMat, model, rfModel, predictions_df, files, sealed, stdout>>

LogMaxDepth ==
    /\ pc = 93
    /\ pc' = After(93)
    /\ run' = Leave(LogParam(run, "max_depth", max_depth), 93)
    /\ UNCHANGED <<failedAt, execNo, ansi, rawTable, df, casted, splitDone, trainMat,
                   testMat, model, rfModel, predictions_df, files, sealed, stdout>>

\* Lines 95-101: the run's forest is fitted on the assembled trainDF.
FitRF ==
    /\ pc = 97
    /\ pc' = After(97)
    /\ ~HasErr(df)
    /\ \E p \in ArrivalOrders(Len(df)) :
          \E rows \in {trainDF(df, p)} :
              /\ CanFit(rows)
              /\ trainMat' = trainMat \cup {rows}
              /\ rfModel' = Fit(RunRF, rows)
    /\ run' = Leave(run, 97)
    /\ UNCHANGED <<failedAt, execNo, ansi, rawTable, df, casted, splitDone,
                   testMat, model, predictions_df, files, sealed, stdout>>

\* Line 104: mlflow.spark.log_model(rfModel, "random-forest-model").
LogRFModel ==
    /\ pc = 104
    /\ pc' = After(104)
    /\ run' = Leave(LogModel(run, rfModel, "random-forest-model"), 104)
    /\ UNCHANGED <<failedAt, execNo, ansi, rawTable, df, casted, splitDone, trainMat,
                   testMat, model, rfModel, predictions_df, files, sealed, stdout>>

\* Lines 106-110: predDF is bound to the plan rfModel.transform(assembled
\* testDF); no row is evaluated yet.
Predict ==
    /\ pc = 106
    /\ pc' = After(106)
    /\ run' = Leave(run, 106)
    /\ UNCHANGED <<failedAt, execNo, ansi, rawTable, df, casted, splitDone, trainMat,
                   testMat, model, rfModel, predictions_df, files, sealed, stdout>>

\* predDF, evaluated over the rows a materialisation of testDF gave.
predDF(rows) == Transform(rfModel, rows)

\* Lines 112-114, 116-118, 120-122, 124-126: one metric is evaluated on
\* predDF, printed and logged.
EvalLogMetric(line, name) ==
    /\ pc = line
    /\ pc' = After(line)
    /\ ~HasErr(df)
    /\ \E p \in ArrivalOrders(Len(df)) :
          \E rows \in {testDF(df, p)} : \E preds \in {predDF(rows)} :
              /\ Assembles(rows)
              /\ testMat' = testMat \cup {rows}
              /\ run' = Leave(LogMetric(run, name, Evaluate(name, preds)), line)
    /\ stdout' = Append(stdout, Printed(name, 0))
    /\ UNCHANGED <<failedAt, execNo, ansi, rawTable, df, casted, splitDone, trainMat,
                   model, rfModel, predictions_df, files, sealed>>

\* Lines 129-131: the feature importances are written to importance.csv.
WriteImportance ==
    /\ pc = 129
    /\ pc' = After(129)
    /\ files' = [files EXCEPT !["importance.csv"] =
                    ToCsv(<<"importance">>, ImportanceFrame(rfModel), execNo)]
    /\ run' = Leave(run, 129)
    /\ UNCHANGED <<failedAt, execNo, ansi, rawTable, df, casted, splitDone, trainMat,
                   testMat, model, rfModel, predictions_df, sealed, stdout>>

\* Lines 132 and 136: mlflow.log_artifact(name) uploads the local file of
\* that name; it raises when there is none.
UploadArtifact(line, name) ==
    /\ pc = line
    /\ pc' = After(line)
    /\ files[name].exists
    /\ run' = Leave(LogArtifact(run, name, files[name]), line)
    /\ UNCHANGED <<failedAt, execNo, ansi, rawTable, df, casted, splitDone, trainMat,
                   testMat, model, rfModel, predictions_df, files, sealed, stdout>>

\* Lines 134-135: three columns of predDF are collected and written to
\* predictions.csv.
WritePredictions ==
    /\ pc = 134
    /\ pc' = After(134)
    /\ ~HasErr(df)
    /\ \E p \in ArrivalOrders(Len(df)) :
          \E rows \in {testDF(df, p)} : \E preds \in {predDF(rows)} :
              /\ Assembles(rows)
              /\ testMat' = testMat \cup {rows}
              /\ predictions_df' = Select(preds)
              /\ files' = [files EXCEPT !["predictions.csv"] =
                              ToCsv(SelectedColumns, Select(preds), execNo)]
    /\ run' = Leave(run, 134)
    /\ UNCHANGED <<failedAt, execNo, ansi, rawTable, df, casted, splitDone, trainMat,
                   model, rfModel, sealed, stdout>>

\* Lines 138-141: the run id and the experiment id are read and printed.
PrintIds ==
    /\ pc = 138
    /\ pc' = After(138)
    /\ stdout' = Append(stdout, Printed("Inside MLflow Run with run_id", run.id))
    /\ run' = Leave(run, 138)
    /\ UNCHANGED <<failedAt, execNo, ansi, rawTable, df, casted, splitDone, trainMat,
                   testMat, model, rfModel, predictions_df, files, sealed>>

\* Any statement may raise (an I/O failure, a parse error, a fit failure, a
\* failed upload).  Nothing catches it: the script ends there, and when the
\* statement is inside the `with` block the block's exit ends the run.
Raise ==
    /\ pc # End
    /\ failedAt' = pc
    /\ pc' = End
    /\ run' = IF InBlock(pc) THEN ExitRun(run, TRUE) ELSE run
    /\ UNCHANGED <<execNo, ansi, rawTable, df, casted, splitDone, trainMat,
                   testMat, model, rfModel, predictions_df, files, sealed, stdout>>

\* The notebook is run again on the same file, in the same session: its
\* variables are rebound from the top, the local files and the ended run
\* stay where they are.
Rerun ==
    /\ pc = End
    /\ execNo < MaxExecutions
    /\ execNo' = execNo + 1
    /\ pc' = Script[1]
    /\ failedAt' = 0
    /\ df' = <<>>
    /\ casted' = FALSE
    /\ splitDone' = FALSE
    /\ model' = NoModel
    /\ rfModel' = NoModel
    /\ predictions_df' = <<>>
    /\ stdout' = <<>>
    /\ sealed' = IF run.status = "NONE" THEN sealed ELSE run
    /\ run' = NoRun
    /\ UNCHANGED <<ansi, rawTable, trainMat, testMat, files>>

\* One statement of the script runs, or raises.
Step ==
    \/ Load
    \/ DisplayRaw
    \/ Cast
    \/ DisplayCast
    \/ Split
    \/ DisplayTrain
    \/ Summary
    \/ PipelineFit
    \/ PipelineEval
    \/ StartRun
    \/ LogNumTrees
    \/ LogMaxDepth
    \/ FitRF
    \/ LogRFModel
    \/ Predict
    \/ EvalLogMetric(112, "r2")
    \/ EvalLogMetric(116, "mae")
    \/ EvalLogMetric(120, "rmse")
    \/ EvalLogMetric(124, "mse")
    \/ WriteImportance
    \/ UploadArtifact(132, "importance.csv")
    \/ WritePredictions
    \/ UploadArtifact(136, "predictions.csv")
    \/ PrintIds
    \/ Raise

Next == Step \/ Rerun

Spec == Init /\ [][Next]_vars

\* One execution of the notebook.  The interpreter runs the script on: a
\* statement that can run, or raise, does.
OneRun == Init /\ [][Step]_vars /\ WF_vars(Step)

-----------------------------------------------------------------------------
(* Properties *)

Closed == {"FINISHED", "FAILED"}

Contents(r) == <<r.params, r.metrics, r.models, r.artifacts>>

Keys(logged) == {logged[i][1] : i \in 1..Len(logged)}

Names(artifacts) == {artifacts[i].name : i \in 1..Len(artifacts)}

IdsLine == "Inside MLflow Run with run_id"

IdsPrinted == \E i \in 1..Len(stdout) : stdout[i].what = IdsLine

MetricNames == {"r2", "mae", "rmse", "mse"}

\* The typed table every materialisation of the split reads.
TypedTable == CastTable(rawTable, ansi)

Count(r, rows) == Cardinality({i \in 1..Len(rows) : rows[i] = r})

IsNumber(t) == CastDouble(t, FALSE).k = "val"

NonNumeric(r) == ~IsDigits(r.position) \/ ~IsNumber(r.points)

\* C1: once the run is started it is eventually ended, and the script never
\* ends with the run still open, however many logging calls were made
\* before the block was left.
C1_RunAlwaysFinalized ==
    /\ (run.status = "RUNNING") ~> (run.status \in Closed)
    /\ [](pc = End => run.status # "RUNNING")

\* A statement raised after two parameters and some, not all, of the
\* metrics were logged, and the run was ended as FAILED.
C1_Witness ==
    /\ run.status = "FAILED"
    /\ Len(run.params) = 2
    /\ Len(run.metrics) \in 1..3

\* C2: the contents of the run record change only in a step that starts
\* with the run open, and a record that was ended never changes again,
\* also when a later execution logs to a run of its own.
C2_MutatedOnlyWhileOpen ==
    [][ /\ (execNo' = execNo /\ Contents(run') # Contents(run)) => run.status = "RUNNING"
        /\ (execNo' = execNo /\ run.status \in Closed) => run' = run
        /\ (execNo' # execNo /\ run.status \in Closed) => sealed' = run
        /\ (execNo' = execNo) => sealed' = sealed ]_vars

\* A second execution logs to its open run while the first execution's run
\* is in the store, ended.
C2_Witness ==
    /\ sealed.status = "FINISHED"
    /\ run.status = "RUNNING"
    /\ Len(run.metrics) = 4

\* C3: when the script ends without a failure the run is FINISHED and holds
\* the parameters num_trees and max_depth, the metrics r2, mae, rmse and mse,
\* each logged once, one model, and the artifacts importance.csv and
\* predictions.csv; the ids are printed only when all of these are recorded.
C3_CompleteRecord ==
    (IdsPrinted \/ (pc = End /\ failedAt = 0)) =>
        /\ run.status \in (IF pc = End THEN Closed ELSE {"RUNNING"})
        /\ (pc = End /\ failedAt = 0) => run.status = "FINISHED"
        /\ Keys(run.params) = {"num_trees", "max_depth"}
        /\ Len(run.params) = 2
        /\ Keys(run.metrics) = MetricNames
        /\ Len(run.metrics) = 4
        /\ Len(run.models) = 1
        /\ Names(run.artifacts) = FileNames
        /\ Len(run.artifacts) = 2

C3_Witness == pc = End /\ failedAt = 0 /\ run.status = "FINISHED" /\ IdsPrinted

\* C4: a statement that raises ends the script at that statement: nothing of
\* the run record, the files or the output is undone or added, and the only
\* step after it is a new execution from the first line.
C4_FailureTerminates ==
    [][ /\ (failedAt = 0 /\ failedAt' # 0) =>
              /\ failedAt' = pc
              /\ pc' = End
              /\ Contents(run') = Contents(run)
              /\ run'.status = (IF run.status = "RUNNING" THEN "FAILED" ELSE run.status)
              /\ UNCHANGED <<files, stdout, sealed, model, rfModel, execNo>>
        /\ (failedAt # 0) =>
              /\ pc = End
              /\ execNo' = execNo + 1
              /\ pc' = Script[1]
              /\ sealed' = (IF run.status = "NONE" THEN sealed ELSE run) ]_vars

\* The upload of importance.csv raised: the run is FAILED and keeps what was
\* logged before.
C4_Witness ==
    /\ failedAt = 132
    /\ pc = End
    /\ run.status = "FAILED"
    /\ Len(run.params) = 2
    /\ Len(run.metrics) = 4
    /\ Len(run.models) = 1

\* C5 as stated: a non-numeric points or position value ends the script at
\* the cast, so that the split is never reached with such a row.
C5_CastFailsBeforeSplit ==
    splitDone => \A i \in 1..Len(rawTable) : ~NonNumeric(rawTable[i])

\* C5, amended: the cast turns a non-numeric value into NULL when ANSI mode
\* is off, and the row goes on with the NULL in it; when ANSI mode is on,
\* evaluating the row raises, and no fit and no run is reached.
C5_NonNumericNullOrError ==
    /\ casted =>
          /\ Len(df) = Len(rawTable)
          /\ \A i \in 1..Len(df) :
                /\ df[i].position.k = (IF IsDigits(rawTable[i].position) THEN "val"
                                       ELSE IF ansi THEN "err" ELSE "null")
                /\ df[i].points.k = (IF IsNumber(rawTable[i].points) THEN "val"
                                     ELSE IF ansi THEN "err" ELSE "null")
    /\ (ansi /\ \E i \in 1..Len(rawTable) : NonNumeric(rawTable[i])) =>
          /\ model = NoModel
          /\ rfModel = NoModel
          /\ run = NoRun
          /\ pc \in {20, 24, 33, 37, 46, 56, 60, End}
          /\ pc = End => failedAt # 0

\* With ANSI mode off, a row whose position was not a number is in the table
\* that was split, its position NULL, and the script has gone on to the fit.
C5_Witness ==
    /\ ~ansi
    /\ splitDone
    /\ pc = 65
    /\ \E i \in 1..Len(df) : ~IsDigits(rawTable[i].position) /\ df[i].position = Null

\* C6: every materialisation of trainDF yields the same rows, and every
\* materialisation of testDF too, within an execution and from one
\* execution on the same file to the next.
C6_SplitDeterministic == Cardinality(trainMat) <= 1 /\ Cardinality(testMat) <= 1

\* The second execution has materialised both splits again, and neither is
\* empty.
C6_Witness ==
    /\ execNo = 2
    /\ pc = 86
    /\ \E tr \in trainMat : Len(tr) >= 1
    /\ \E te \in testMat : Len(te) >= 1

\* C7: every row of the (position, points) table is in exactly one of
\* trainDF and testDF, as often as it is in the table.
C7_DisjointCover ==
    LET t == TypedTable
    IN  \A tr \in trainMat : \A te \in testMat :
            /\ Len(tr) + Len(te) = Len(t)
            /\ \A i \in 1..Len(t) : Count(t[i], tr) + Count(t[i], te) = Count(t[i], t)

C7_Witness ==
    \E tr \in trainMat : \E te \in testMat :
        Len(tr) >= 1 /\ Len(te) >= 1 /\ Len(tr) + Len(te) >= 3

\* C8: predictions.csv has the columns position, points, prediction and one
\* line per row of testDF, in the rows' order, each with the prediction of a
\* model that was fitted on the rows of trainDF.
C8_PredictionsOfTestRows ==
    LET f == files["predictions.csv"]
    IN  f.exists =>
          /\ f.columns = <<"position", "points", "prediction">>
          /\ \A te \in testMat :
                /\ Len(f.rows) = Len(te)
                /\ \A i \in 1..Len(te) :
                      /\ DOMAIN f.rows[i] = {"position", "points", "prediction"}
                      /\ f.rows[i].position = te[i].position
                      /\ f.rows[i].points = te[i].points
                      /\ f.rows[i].prediction.at = <<te[i].position>>
                      /\ f.rows[i].prediction.by.trainedOn \in trainMat

C8_Witness ==
    /\ files["predictions.csv"].exists
    /\ Len(files["predictions.csv"].rows) >= 1
    /\ predictions_df = files["predictions.csv"].rows
    /\ \E tr \in trainMat : Len(tr) >= 1

\* C9: an artifact of the run is the local file of its name as this
\* execution wrote it, and a file this execution wrote was written after the
\* model was fitted and the four metrics were logged.
C9_WrittenBeforeUploaded ==
    /\ \A i \in 1..Len(run.artifacts) :
          /\ run.artifacts[i].file.exists
          /\ run.artifacts[i].file.writtenIn = run.id
          /\ run.artifacts[i].file = files[run.artifacts[i].name]
    /\ \A n \in FileNames :
          (files[n].exists /\ files[n].writtenIn = execNo) =>
              /\ rfModel # NoModel
              /\ Keys(run.metrics) = MetricNames

\* The second execution has uploaded both files, which the first had left
\* on the disk.
C9_Witness ==
    /\ execNo = 2
    /\ sealed.status = "FINISHED"
    /\ Len(run.artifacts) = 2

\* C10: the model logged to the run has the hyperparameters logged as
\* num_trees and max_depth, 10 and 5; the metrics and the artifacts are
\* computed from that model, and none from the pipeline model of line 68.
C10_LoggedParamsAreTheModels ==
    \A r \in {run, sealed} :
        /\ \A i \in 1..Len(r.params) :
              r.params[i] \in {<<"num_trees", 10>>, <<"max_depth", 5>>}
        /\ \A i \in 1..Len(r.models) :
              /\ r.models[i].model.numTrees = 10
              /\ r.models[i].model.maxDepth = 5
              /\ <<"num_trees", r.models[i].model.numTrees>> \in {r.params[j] : j \in 1..Len(r.params)}
              /\ <<"max_depth", r.models[i].model.maxDepth>> \in {r.params[j] : j \in 1..Len(r.params)}
        /\ \A i \in 1..Len(r.metrics) :
              \A j \in 1..Len(r.metrics[i][2].of) :
                  /\ r.metrics[i][2].of[j].prediction.by = r.models[1].model
                  /\ r.metrics[i][2].of[j].prediction.by.numTrees # PipelineRF.numTrees
        /\ \A i \in 1..Len(r.artifacts) :
              \A j \in 1..Len(r.artifacts[i].file.rows) :
                  IF r.artifacts[i].name = "importance.csv"
                  THEN r.artifacts[i].file.rows[j].importance.by = r.models[1].model
                  ELSE r.artifacts[i].file.rows[j].prediction.by = r.models[1].model

\* A run ended with the model, its metrics and both artifacts logged, the
\* pipeline model of line 68 fitted before it.
C10_Witness ==
    /\ run.status = "FINISHED"
    /\ model.numTrees = 5
    /\ Len(run.models) = 1
    /\ Len(run.artifacts) = 2
    /\ Len(run.artifacts[2].file.rows) >= 1

=============================================================================
